---- MODULE Spec2Model ----
(***************************************************************************)
(* GLPrimitive (packages/rhi-webgl/src/GLPrimitive.ts) and ShaderPool      *)
(* (packages/core/src/shader/ShaderPool.ts).                               *)
(*                                                                         *)
(* One Primitive is drawn through two GLPrimitive objects, each on its own *)
(* WebGL context: glPrimitive[TRUE] was constructed by a renderer that     *)
(* supports vertex array objects (_useVao = TRUE), glPrimitive[FALSE] by   *)
(* one that does not.  Both receive the same calls, so the two modes can   *)
(* be compared call by call.  Every GL call and Logger call a method makes *)
(* is appended to the object's `calls`, which holds the calls of the last  *)
(* method invocation; lastCall names that invocation and its arguments,    *)
(* and for a draw() the VAO cache as the call found it.                    *)
(***************************************************************************)
EXTENDS Integers, Sequences, FiniteSets, TLC

VARIABLES primitive, canUseInstancedArrays, glPrimitive, lastCall, shaderCreated

vars == <<primitive, canUseInstancedArrays, glPrimitive, lastCall, shaderCreated>>

(***************************************************************************)
(* Bounds of the model.                                                    *)
(***************************************************************************)
\* number of entries of primitive.vertexBufferBindings
NumBindings == 2
\* primitive.instanceCount ranges over 0..MaxInstanceCount
MaxInstanceCount == 1

(***************************************************************************)
(* Values of the platform.                                                 *)
(***************************************************************************)
\* JavaScript null: no buffer, no vertex array object (the default vertex array)
null == 0
\* the value of a `let` that was never assigned
undefined == -2
\* the location of an attribute that is not active in the program
NoLocation == -1

Locations == 0..2
NativeVertexBuffers == {1, 2}
NativeIndexBuffer == 9
AttributeNames == {"POSITION", "NORMAL", "COLOR"}
BindingIndices == 0..(NumBindings - 1)

\* element._glElementInfo, element.normalized, element.offset and
\* element.instanceDivisor of the vertex element declared under a name: the
\* colour is per instance, position and normal are per vertex
ElementFormat(name) ==
  CASE name = "POSITION" -> [size |-> 3, type |-> "FLOAT", normalized |-> FALSE,
                             offset |-> 0, instanceDivisor |-> 0]
    [] name = "NORMAL"   -> [size |-> 3, type |-> "FLOAT", normalized |-> FALSE,
                             offset |-> 12, instanceDivisor |-> 0]
    [] name = "COLOR"    -> [size |-> 4, type |-> "UNSIGNED_BYTE", normalized |-> TRUE,
                             offset |-> 24, instanceDivisor |-> 1]

VertexElement(name, b) ==
  [bindingIndex |-> b, instanceDivisor |-> ElementFormat(name).instanceDivisor,
   size |-> ElementFormat(name).size, type |-> ElementFormat(name).type,
   normalized |-> ElementFormat(name).normalized, offset |-> ElementFormat(name).offset]

\* the elements primitive._vertexElementMap can hold under a name
VertexElementsOf(name) == {VertexElement(name, b) : b \in BindingIndices}

\* the values of primitive._vertexElementMap: a name outside the domain reads
\* as undefined
VertexElementMaps ==
  UNION {{m \in [S -> UNION {VertexElementsOf(n) : n \in S}] :
            \A n \in S : m[n] \in VertexElementsOf(n)} : S \in SUBSET AttributeNames}

\* the values of primitive.vertexBufferBindings: two bindings may share a
\* native buffer.  Buffer handles are interchangeable, so binding 0 holds
\* the first of them.
VertexBufferBindings ==
  {[i \in BindingIndices |-> [buffer |-> f[i], stride |-> 16 * (i + 1)]] :
     f \in {g \in [BindingIndices -> NativeVertexBuffers] : g[0] = 1}}

Primitives ==
  [vertexBufferBindings : VertexBufferBindings,
   _vertexElementMap    : VertexElementMaps,
   indexBufferBinding   : {null, NativeIndexBuffer},
   instanceCount        : 0..MaxInstanceCount,
   _glIndexType         : {"UNSIGNED_SHORT"}]

\* shaderProgram.attributeLocation in its enumeration order; ids are unique
\* per program and active attributes have pairwise distinct locations
ShaderPrograms ==
  {[id |-> 1, attributeLocation |-> <<[name |-> "POSITION", loc |-> 0],
                                      [name |-> "NORMAL",   loc |-> 1],
                                      [name |-> "COLOR",    loc |-> 2]>>],
   [id |-> 2, attributeLocation |-> <<[name |-> "COLOR",    loc |-> 0],
                                      [name |-> "NORMAL",   loc |-> NoLocation],
                                      [name |-> "POSITION", loc |-> 1]>>]}

SubPrimitives ==
  {[topology |-> "TRIANGLES", start |-> 0, count |-> 3],
   [topology |-> "LINES",     start |-> 2, count |-> 4]}

(***************************************************************************)
(* The WebGL context: the global bindings and the vertex arrays.  Vertex   *)
(* array 0 (null) is the default vertex array.  A vertex array holds its   *)
(* ELEMENT_ARRAY_BUFFER binding and, per attribute location, the enabled   *)
(* flag, the pointer (with the buffer that was bound to ARRAY_BUFFER when  *)
(* the pointer was specified) and the divisor.                             *)
(***************************************************************************)
InitialAttrib ==
  [enabled |-> FALSE, buffer |-> null, size |-> 4, type |-> "FLOAT",
   normalized |-> FALSE, stride |-> 0, offset |-> 0, divisor |-> 0]

InitialVertexArray ==
  [ELEMENT_ARRAY_BUFFER |-> null, attribs |-> [l \in Locations |-> InitialAttrib]]

InitialGL ==
  [VERTEX_ARRAY_BINDING |-> null,
   ARRAY_BUFFER         |-> null,
   vertexArrays         |-> [h \in {null} |-> InitialVertexArray],
   deleted              |-> {}]

\* what a draw command reads: the enabled attributes of the bound vertex
\* array with their pointers and divisors, and its element array buffer
VertexState(gl) ==
  LET va == gl.vertexArrays[gl.VERTEX_ARRAY_BINDING]
  IN  [ELEMENT_ARRAY_BUFFER |-> va.ELEMENT_ARRAY_BUFFER,
       attribs |-> [l \in Locations |->
                      IF va.attribs[l].enabled THEN va.attribs[l] ELSE InitialAttrib]]

Record(self, call) == [self EXCEPT !.calls = Append(@, call)]

glBindBuffer(self, target, buffer) ==
  LET gl == self.gl
      bound == IF target = "ARRAY_BUFFER"
               THEN [gl EXCEPT !.ARRAY_BUFFER = buffer]
               ELSE [gl EXCEPT !.vertexArrays[gl.VERTEX_ARRAY_BINDING].ELEMENT_ARRAY_BUFFER = buffer]
  IN  Record([self EXCEPT !.gl = bound], [op |-> "bindBuffer", args |-> <<target, buffer>>])

glEnableVertexAttribArray(self, loc) ==
  Record([self EXCEPT !.gl.vertexArrays[self.gl.VERTEX_ARRAY_BINDING].attribs[loc].enabled = TRUE],
         [op |-> "enableVertexAttribArray", args |-> <<loc>>])

glDisableVertexAttribArray(self, loc) ==
  Record([self EXCEPT !.gl.vertexArrays[self.gl.VERTEX_ARRAY_BINDING].attribs[loc].enabled = FALSE],
         [op |-> "disableVertexAttribArray", args |-> <<loc>>])

glVertexAttribPointer(self, loc, size, type, normalized, stride, offset) ==
  Record([self EXCEPT !.gl.vertexArrays[self.gl.VERTEX_ARRAY_BINDING].attribs[loc] =
                         [@ EXCEPT !.buffer = self.gl.ARRAY_BUFFER, !.size = size, !.type = type,
                                   !.normalized = normalized, !.stride = stride, !.offset = offset]],
         [op |-> "vertexAttribPointer", args |-> <<loc, size, type, normalized, stride, offset>>,
          ARRAY_BUFFER |-> self.gl.ARRAY_BUFFER])

glVertexAttribDivisor(self, loc, divisor) ==
  Record([self EXCEPT !.gl.vertexArrays[self.gl.VERTEX_ARRAY_BINDING].attribs[loc].divisor = divisor],
         [op |-> "vertexAttribDivisor", args |-> <<loc, divisor>>])

\* the handle gl.createVertexArray() returns next
NewVertexArray(gl) == Cardinality(DOMAIN gl.vertexArrays)

glCreateVertexArray(self) ==
  LET h == NewVertexArray(self.gl)
  IN  Record([self EXCEPT !.gl.vertexArrays =
                             [x \in DOMAIN @ \cup {h} |-> IF x = h THEN InitialVertexArray ELSE @[x]]],
             [op |-> "createVertexArray", args |-> <<h>>])

\* binding a deleted vertex array is an INVALID_OPERATION and binds nothing
glBindVertexArray(self, h) ==
  Record(IF h \in self.gl.deleted THEN self
         ELSE [self EXCEPT !.gl.VERTEX_ARRAY_BINDING = h],
         [op |-> "bindVertexArray", args |-> <<h>>])

glDeleteVertexArray(self, h) ==
  Record([self EXCEPT !.gl.deleted = @ \cup {h},
                      !.gl.VERTEX_ARRAY_BINDING = IF @ = h THEN null ELSE @],
         [op |-> "deleteVertexArray", args |-> <<h>>])

DrawOps == {"drawElements", "drawArrays", "drawElementsInstanced", "drawArraysInstanced"}

glDraw(self, op, args) ==
  Record(self, [op |-> op, args |-> args, vertexState |-> VertexState(self.gl)])

LoggerWarn(self, msg) == Record(self, [op |-> "Logger.warn", args |-> <<msg>>])

LoggerError(self, msg) == Record(self, [op |-> "Logger.error", args |-> <<msg>>])

(***************************************************************************)
(* GLPrimitive.  `self` is the object: useVao, gl (its context), vao (the  *)
(* Map from shaderProgram.id to vertex array, as its entries in insertion  *)
(* order), attribLocArray and calls.                                       *)
(***************************************************************************)
MapHas(map, key) == \E i \in 1..Len(map) : map[i].key = key

MapGet(map, key) == map[CHOOSE i \in 1..Len(map) : map[i].key = key].value

MapSet(map, key, value) ==
  IF MapHas(map, key)
  THEN [i \in 1..Len(map) |-> IF map[i].key = key THEN [key |-> key, value |-> value] ELSE map[i]]
  ELSE Append(map, [key |-> key, value |-> value])

\* mutant of NeedsBind: the buffer is bound only at the first attribute
NeedsBindFirstOnly(lastBoundVbo, vbo) == lastBoundVbo = undefined

\* line 125: the buffer is bound unless it is the one bound at the last loop
NeedsBind(lastBoundVbo, vbo) == lastBoundVbo # vbo

\* mutant of MissingAttribute: the attribute is passed over in silence
MissingAttributeSilent(self, name) == self

\* line 138
MissingAttribute(self, name) == LoggerWarn(self, "vertex attribute not found: " \o name)

RECURSIVE BindAttribs(_, _, _, _)
\* the loop of bindBufferAndAttrib from the i-th attribute on
BindAttribs(self, attributeLocation, i, lastBoundVbo) ==
  IF i > Len(attributeLocation) THEN self
  ELSE
    LET name == attributeLocation[i].name
        loc == attributeLocation[i].loc
        attributes == primitive._vertexElementMap
    IN  IF loc = NoLocation
        THEN BindAttribs(self, attributeLocation, i + 1, lastBoundVbo)
        ELSE IF name \in DOMAIN attributes
        THEN LET element == attributes[name]
                 binding == primitive.vertexBufferBindings[element.bindingIndex]
                 vbo == binding.buffer
                 s1 == IF NeedsBind(lastBoundVbo, vbo)
                       THEN glBindBuffer(self, "ARRAY_BUFFER", vbo) ELSE self
                 s2 == glEnableVertexAttribArray(s1, loc)
                 s3 == glVertexAttribPointer(s2, loc, element.size, element.type,
                                             element.normalized, binding.stride, element.offset)
                 s4 == IF canUseInstancedArrays
                       THEN glVertexAttribDivisor(s3, loc, element.instanceDivisor) ELSE s3
                 s5 == [s4 EXCEPT !.attribLocArray = Append(@, loc)]
             IN  BindAttribs(s5, attributeLocation, i + 1, vbo)
        ELSE BindAttribs(MissingAttribute(self, name), attributeLocation, i + 1, lastBoundVbo)

bindBufferAndAttrib(self, shaderProgram) ==
  LET s1 == [self EXCEPT !.attribLocArray = <<>>]
      s2 == BindAttribs(s1, shaderProgram.attributeLocation, 1, undefined)
  IN  glBindBuffer(s2, "ARRAY_BUFFER", null)

RECURSIVE DisableFrom(_, _)
DisableFrom(self, i) ==
  IF i > Len(self.attribLocArray) THEN self
  ELSE DisableFrom(glDisableVertexAttribArray(self, self.attribLocArray[i]), i + 1)

disableAttrib(self) == DisableFrom(self, 1)

\* mutant of RegisterUnbind: the index buffer is unbound while the new vertex
\* array is still bound
RegisterUnbindBufferFirst(self) ==
  LET s1 == glBindBuffer(self, "ELEMENT_ARRAY_BUFFER", null)
      s2 == glBindVertexArray(s1, null)
  IN  disableAttrib(s2)

\* lines 165-168 of registerVAO
RegisterUnbind(self) ==
  LET s1 == glBindVertexArray(self, null)
      s2 == glBindBuffer(s1, "ELEMENT_ARRAY_BUFFER", null)
  IN  disableAttrib(s2)

registerVAO(self, shaderProgram) ==
  LET vao == NewVertexArray(self.gl)
      s1 == glCreateVertexArray(self)
      s2 == glBindVertexArray(s1, vao)
      indexBufferBinding == primitive.indexBufferBinding
      s3 == IF indexBufferBinding # null
            THEN glBindBuffer(s2, "ELEMENT_ARRAY_BUFFER", indexBufferBinding) ELSE s2
      s4 == bindBufferAndAttrib(s3, shaderProgram)
      s5 == RegisterUnbind(s4)
  IN  [s5 EXCEPT !.vao = MapSet(@, shaderProgram.id, vao)]

\* mutant of DrawBind: the vertex array is registered at every draw
DrawBindAlwaysRegister(self, shaderProgram) ==
  IF self.useVao
  THEN LET s1 == registerVAO(self, shaderProgram)
       IN  glBindVertexArray(s1, MapGet(s1.vao, shaderProgram.id))
  ELSE bindBufferAndAttrib(self, shaderProgram)

\* lines 39-47 of draw
DrawBind(self, shaderProgram) ==
  IF self.useVao
  THEN LET s1 == IF ~MapHas(self.vao, shaderProgram.id)
                 THEN registerVAO(self, shaderProgram) ELSE self
       IN  glBindVertexArray(s1, MapGet(s1.vao, shaderProgram.id))
  ELSE bindBufferAndAttrib(self, shaderProgram)

\* drawElements / drawElementsInstanced between the binding and unbinding of
\* the index buffer that non-VAO mode adds (lines 54-61 and 68-75)
DrawIndexed(self, op, args) ==
  IF self.useVao
  THEN glDraw(self, op, args)
  ELSE LET s1 == glBindBuffer(self, "ELEMENT_ARRAY_BUFFER", primitive.indexBufferBinding)
           s2 == glDraw(s1, op, args)
       IN  glBindBuffer(s2, "ELEMENT_ARRAY_BUFFER", null)

\* mutant of InstancingUnsupported: the primitive is drawn once, uninstanced
InstancingUnsupportedFallback(self, subPrimitive) ==
  glDraw(self, "drawArrays", <<subPrimitive.topology, subPrimitive.start, subPrimitive.count>>)

\* line 80
InstancingUnsupported(self, subPrimitive) ==
  LoggerError(self, "ANGLE_instanced_arrays extension is not supported")

\* mutant of DrawIssue: start and count of the array draws are exchanged
DrawIssueStartCountSwapped(self, subPrimitive) ==
  LET indexBufferBinding == primitive.indexBufferBinding
      instanceCount == primitive.instanceCount
      type == primitive._glIndexType
      topology == subPrimitive.topology
      start == subPrimitive.start
      count == subPrimitive.count
  IN  IF instanceCount = 0
      THEN IF indexBufferBinding # null
           THEN DrawIndexed(self, "drawElements", <<topology, count, type, start>>)
           ELSE glDraw(self, "drawArrays", <<topology, count, start>>)
      ELSE IF canUseInstancedArrays
           THEN IF indexBufferBinding # null
                THEN DrawIndexed(self, "drawElementsInstanced",
                                 <<topology, count, type, start, instanceCount>>)
                ELSE glDraw(self, "drawArraysInstanced", <<topology, count, start, instanceCount>>)
           ELSE InstancingUnsupported(self, subPrimitive)

\* lines 49-82 of draw
DrawIssue(self, subPrimitive) ==
  LET indexBufferBinding == primitive.indexBufferBinding
      instanceCount == primitive.instanceCount
      type == primitive._glIndexType
      topology == subPrimitive.topology
      start == subPrimitive.start
      count == subPrimitive.count
  IN  IF instanceCount = 0
      THEN IF indexBufferBinding # null
           THEN DrawIndexed(self, "drawElements", <<topology, count, type, start>>)
           ELSE glDraw(self, "drawArrays", <<topology, start, count>>)
      ELSE IF canUseInstancedArrays
           THEN IF indexBufferBinding # null
                THEN DrawIndexed(self, "drawElementsInstanced",
                                 <<topology, count, type, start, instanceCount>>)
                ELSE glDraw(self, "drawArraysInstanced", <<topology, start, count, instanceCount>>)
           ELSE InstancingUnsupported(self, subPrimitive)

\* mutant of DrawUnbind: without VAO the attributes stay enabled
DrawUnbindVaoOnly(self) ==
  IF self.useVao THEN glBindVertexArray(self, null) ELSE self

\* lines 84-89 of draw
DrawUnbind(self) ==
  IF self.useVao THEN glBindVertexArray(self, null) ELSE disableAttrib(self)

draw(self, shaderProgram, subPrimitive) ==
  LET s0 == [self EXCEPT !.calls = <<>>]
      s1 == DrawBind(s0, shaderProgram)
      s2 == DrawIssue(s1, subPrimitive)
  IN  DrawUnbind(s2)

RECURSIVE DeleteFrom(_, _)
DeleteFrom(self, i) ==
  IF i > Len(self.vao) THEN self
  ELSE DeleteFrom(glDeleteVertexArray(self, self.vao[i].value), i + 1)

destroy(self) ==
  LET s0 == [self EXCEPT !.calls = <<>>]
  IN  IF self.useVao THEN DeleteFrom(s0, 1) ELSE s0

\* the constructor; attribLocArray is not assigned until the first
\* bindBufferAndAttrib and is only read after one
NewGLPrimitive(useVao) ==
  [useVao |-> useVao, gl |-> InitialGL, vao |-> <<>>, attribLocArray |-> <<>>, calls |-> <<>>]

(***************************************************************************)
(* ShaderPool.init: the Shader.create calls it makes, in order.            *)
(***************************************************************************)
ShaderCreate(name, vertexSource, fragmentSource) ==
  [name |-> name, vertexSource |-> vertexSource, fragmentSource |-> fragmentSource]

\* mutant of ShaderPoolInit: "shadow" takes the fragment source of "shadow-map"
ShaderPoolInitShadowMapFs ==
  << ShaderCreate("blinn-phong", "../shaderlib/extra/blinn-phong.vs.glsl", "../shaderlib/extra/blinn-phong.fs.glsl"),
     ShaderCreate("pbr", "../shaderlib/extra/pbr.vs.glsl", "../shaderlib/extra/pbr.fs.glsl"),
     ShaderCreate("shadow-map", "../shaderlib/extra/shadow-map.vs.glsl", "../shaderlib/extra/shadow-map.fs.glsl"),
     ShaderCreate("shadow", "../shaderlib/extra/shadow-map.vs.glsl", "../shaderlib/extra/shadow-map.fs.glsl"),
     ShaderCreate("skybox", "../shaderlib/extra/skybox.vs.glsl", "../shaderlib/extra/skybox.fs.glsl"),
     ShaderCreate("particle-shader", "../shaderlib/extra/particle.vs.glsl", "../shaderlib/extra/particle.fs.glsl") >>

ShaderPoolInit ==
  << ShaderCreate("blinn-phong", "../shaderlib/extra/blinn-phong.vs.glsl", "../shaderlib/extra/blinn-phong.fs.glsl"),
     ShaderCreate("pbr", "../shaderlib/extra/pbr.vs.glsl", "../shaderlib/extra/pbr.fs.glsl"),
     ShaderCreate("shadow-map", "../shaderlib/extra/shadow-map.vs.glsl", "../shaderlib/extra/shadow-map.fs.glsl"),
     ShaderCreate("shadow", "../shaderlib/extra/shadow-map.vs.glsl", "../shaderlib/extra/shadow.fs.glsl"),
     ShaderCreate("skybox", "../shaderlib/extra/skybox.vs.glsl", "../shaderlib/extra/skybox.fs.glsl"),
     ShaderCreate("particle-shader", "../shaderlib/extra/particle.vs.glsl", "../shaderlib/extra/particle.fs.glsl") >>

(***************************************************************************)
(* The state machine.                                                      *)
(***************************************************************************)
Init ==
  /\ primitive \in Primitives
  /\ canUseInstancedArrays \in BOOLEAN
  /\ glPrimitive = [useVao \in BOOLEAN |-> NewGLPrimitive(useVao)]
  /\ lastCall = [op |-> "new"]
  /\ shaderCreated = <<>>

Draw(shaderProgram, subPrimitive) ==
  /\ glPrimitive' = [useVao \in BOOLEAN |-> draw(glPrimitive[useVao], shaderProgram, subPrimitive)]
  /\ lastCall' = [op |-> "draw", shaderProgram |-> shaderProgram, subPrimitive |-> subPrimitive,
                  vao |-> glPrimitive[TRUE].vao]
  /\ UNCHANGED <<primitive, canUseInstancedArrays, shaderCreated>>

Destroy ==
  /\ glPrimitive' = [useVao \in BOOLEAN |-> destroy(glPrimitive[useVao])]
  /\ lastCall' = [op |-> "destroy"]
  /\ UNCHANGED <<primitive, canUseInstancedArrays, shaderCreated>>

InitShaderPool ==
  /\ shaderCreated' = ShaderPoolInit
  /\ UNCHANGED <<primitive, canUseInstancedArrays, glPrimitive, lastCall>>

Next ==
  \/ \E shaderProgram \in ShaderPrograms, subPrimitive \in SubPrimitives :
        Draw(shaderProgram, subPrimitive)
  \/ Destroy
  \/ InitShaderPool

Spec == Init /\ [][Next]_vars

(***************************************************************************)
(* Reading the calls of the last invocation.                               *)
(***************************************************************************)
Calls(useVao) == glPrimitive[useVao].calls

OpsOf(calls, ops) == SelectSeq(calls, LAMBDA c : c.op \in ops)

DrawCommands(calls) == OpsOf(calls, DrawOps)

IsCall(c, op, args) == c.op = op /\ c.args = args

Drawn == lastCall.op = "draw"

\* the instances on which the last draw() ran bindBufferAndAttrib: always
\* without VAO, with VAO only when the draw registered the vertex array
BoundAttribs(useVao) ==
  Drawn /\ (useVao => OpsOf(Calls(useVao), {"createVertexArray"}) # <<>>)

InstancingAvailable == primitive.instanceCount = 0 \/ canUseInstancedArrays

\* the attributes of the program of the last draw that bindBufferAndAttrib
\* does not skip
ActiveAttributes ==
  SelectSeq(lastCall.shaderProgram.attributeLocation, LAMBDA a : a.loc # NoLocation)

HasElement(a) == a.name \in DOMAIN primitive._vertexElementMap

Range(seq) == {seq[i] : i \in 1..Len(seq)}

(***************************************************************************)
(* C1: in VAO mode a draw() whose shaderProgram.id is not in the cache     *)
(* creates exactly one vertex array and appends it to the cache under that *)
(* id; a draw() whose id is cached leaves the cache as it is, first binds  *)
(* the vertex array stored for the id and makes no createVertexArray,      *)
(* enableVertexAttribArray or vertexAttribPointer call.  The cache holds   *)
(* one entry per id and no draw() removes or replaces an entry.            *)
(***************************************************************************)
C1_VaoRegisteredOncePerProgram ==
  Drawn =>
  LET old == [vao |-> lastCall.vao]
      new == glPrimitive[TRUE]
      shaderProgram == lastCall.shaderProgram
      created == OpsOf(new.calls, {"createVertexArray"})
  IN  /\ MapHas(old.vao, shaderProgram.id) =>
           /\ new.vao = old.vao
           /\ OpsOf(new.calls, {"createVertexArray", "enableVertexAttribArray",
                                "vertexAttribPointer"}) = <<>>
           /\ IsCall(new.calls[1], "bindVertexArray", <<MapGet(old.vao, shaderProgram.id)>>)
      /\ ~MapHas(old.vao, shaderProgram.id) =>
           /\ Len(created) = 1
           /\ new.vao = Append(old.vao, [key |-> shaderProgram.id, value |-> created[1].args[1]])
           /\ \E i \in 1..Len(new.calls) :
                IsCall(new.calls[i], "bindVertexArray", <<created[1].args[1]>>)
      /\ Len(new.vao) >= Len(old.vao)
      /\ \A i \in 1..Len(old.vao) : new.vao[i] = old.vao[i]
      /\ \A i, j \in 1..Len(new.vao) : new.vao[i].key = new.vao[j].key => i = j

\* a draw with a cached id, after both programs were registered
C1_Witness ==
  /\ Drawn
  /\ Len(glPrimitive[TRUE].vao) = 2
  /\ OpsOf(Calls(TRUE), {"createVertexArray"}) = <<>>
  /\ primitive._vertexElementMap # << >>

(***************************************************************************)
(* C2: when instancing is available whenever instanceCount is non-zero,    *)
(* draw() issues exactly one draw command, in either mode, and it is the   *)
(* one the table selects from instanceCount and indexBufferBinding.        *)
(***************************************************************************)
C2_Expected ==
  LET sub == lastCall.subPrimitive
      indexed == primitive.indexBufferBinding # null
      instanced == primitive.instanceCount # 0
  IN  [op   |-> CASE ~instanced /\ indexed  -> "drawElements"
                  [] ~instanced /\ ~indexed -> "drawArrays"
                  [] instanced /\ indexed   -> "drawElementsInstanced"
                  [] instanced /\ ~indexed  -> "drawArraysInstanced",
       args |-> CASE ~instanced /\ indexed  ->
                       <<sub.topology, sub.count, primitive._glIndexType, sub.start>>
                  [] ~instanced /\ ~indexed ->
                       <<sub.topology, sub.start, sub.count>>
                  [] instanced /\ indexed   ->
                       <<sub.topology, sub.count, primitive._glIndexType, sub.start,
                         primitive.instanceCount>>
                  [] instanced /\ ~indexed  ->
                       <<sub.topology, sub.start, sub.count, primitive.instanceCount>>]

C2_DrawCommandSelected ==
  Drawn /\ InstancingAvailable =>
    \A useVao \in BOOLEAN :
      LET draws == DrawCommands(Calls(useVao))
      IN  /\ Len(draws) = 1
          /\ draws[1].op = C2_Expected.op
          /\ draws[1].args = C2_Expected.args

\* an instanced indexed draw on a device with instanced arrays
C2_Witness ==
  /\ Drawn
  /\ primitive.instanceCount # 0
  /\ canUseInstancedArrays
  /\ primitive.indexBufferBinding # null
  /\ \A useVao \in BOOLEAN : Len(DrawCommands(Calls(useVao))) = 1

(***************************************************************************)
(* C3: ShaderPool.init() makes six Shader.create calls, named              *)
(* "blinn-phong", "pbr", "shadow-map", "shadow", "skybox" and              *)
(* "particle-shader" in this order, whatever the state it is called in;    *)
(* "shadow" takes the vertex source of "shadow-map" and a fragment source  *)
(* no other shader takes.                                                  *)
(***************************************************************************)
C3_SixBuiltinShaders ==
  shaderCreated # <<>> =>
    /\ [i \in 1..Len(shaderCreated) |-> shaderCreated[i].name] =
         <<"blinn-phong", "pbr", "shadow-map", "shadow", "skybox", "particle-shader">>
    /\ \A i, j \in 1..Len(shaderCreated) :
         shaderCreated[i].name = shaderCreated[j].name => i = j
    /\ shaderCreated[4].vertexSource = shaderCreated[3].vertexSource
    /\ \A i \in 1..Len(shaderCreated) :
         i # 4 => shaderCreated[i].fragmentSource # shaderCreated[4].fragmentSource

\* init() called after the primitive was drawn and destroyed
C3_Witness ==
  /\ shaderCreated # <<>>
  /\ lastCall.op = "destroy"
  /\ glPrimitive[TRUE].gl.deleted # {}

(***************************************************************************)
(* C4: when bindBufferAndAttrib meets an attribute with a location other   *)
(* than -1 and no vertex element of its name, it logs one warning naming   *)
(* it, makes no enable, pointer or divisor call for its location, leaves   *)
(* the location out of attribLocArray and goes on to bind every later      *)
(* attribute that has an element; nothing else is logged and draw() still  *)
(* issues its draw command.                                                *)
(***************************************************************************)
C4_MissingAttributeOnlyWarns ==
  \A useVao \in BOOLEAN :
    BoundAttribs(useVao) =>
      LET self == glPrimitive[useVao]
          calls == self.calls
          warns == OpsOf(calls, {"Logger.warn"})
          enables == OpsOf(calls, {"enableVertexAttribArray"})
          missing == SelectSeq(ActiveAttributes, LAMBDA a : ~HasElement(a))
          present == SelectSeq(ActiveAttributes, HasElement)
      IN  /\ [i \in 1..Len(warns) |-> warns[i].args[1]] =
               [i \in 1..Len(missing) |-> "vertex attribute not found: " \o missing[i].name]
          /\ \A i \in 1..Len(missing) :
               /\ \A k \in 1..Len(calls) :
                    calls[k].op \in {"enableVertexAttribArray", "vertexAttribPointer",
                                     "vertexAttribDivisor"}
                      => calls[k].args[1] # missing[i].loc
               /\ missing[i].loc \notin Range(self.attribLocArray)
          /\ [i \in 1..Len(enables) |-> enables[i].args[1]] =
               [i \in 1..Len(present) |-> present[i].loc]
          /\ InstancingAvailable =>
               /\ Len(DrawCommands(calls)) = 1
               /\ OpsOf(calls, {"Logger.error"}) = <<>>

\* the first attribute of the program has no element, a later one has, and
\* the draw command was issued
C4_Witness ==
  /\ Drawn
  /\ InstancingAvailable
  /\ ~HasElement(ActiveAttributes[1])
  /\ HasElement(ActiveAttributes[Len(ActiveAttributes)])
  /\ \A useVao \in BOOLEAN :
       /\ BoundAttribs(useVao)
       /\ OpsOf(Calls(useVao), {"Logger.warn"}) # <<>>
       /\ OpsOf(Calls(useVao), {"enableVertexAttribArray"}) # <<>>
       /\ Len(DrawCommands(Calls(useVao))) = 1

(***************************************************************************)
(* C5: with instanceCount non-zero and instanced arrays unsupported,       *)
(* draw() issues no draw command, logs exactly one error, "ANGLE_instanced *)
(* _arrays extension is not supported", and runs to its end: what follows  *)
(* the error is the unbind step, bindVertexArray(null) in VAO mode and the *)
(* disabling of every location of attribLocArray otherwise.                *)
(***************************************************************************)
C5_InstancingUnsupported ==
  Drawn /\ primitive.instanceCount # 0 /\ ~canUseInstancedArrays =>
    \A useVao \in BOOLEAN :
      LET self == glPrimitive[useVao]
          calls == self.calls
          errors == OpsOf(calls, {"Logger.error"})
      IN  /\ DrawCommands(calls) = <<>>
          /\ Len(errors) = 1
          /\ errors[1].args = <<"ANGLE_instanced_arrays extension is not supported">>
          /\ \E e \in 1..Len(calls) :
               /\ calls[e].op = "Logger.error"
               /\ LET rest == SubSeq(calls, e + 1, Len(calls))
                  IN  IF useVao
                      THEN /\ Len(rest) = 1
                           /\ IsCall(rest[1], "bindVertexArray", <<null>>)
                      ELSE /\ Len(rest) = Len(self.attribLocArray)
                           /\ \A i \in 1..Len(rest) :
                                IsCall(rest[i], "disableVertexAttribArray",
                                       <<self.attribLocArray[i]>>)

\* the unsupported path with attributes to disable and an index buffer
C5_Witness ==
  /\ Drawn
  /\ primitive.instanceCount # 0
  /\ ~canUseInstancedArrays
  /\ primitive.indexBufferBinding # null
  /\ Len(glPrimitive[FALSE].attribLocArray) >= 2
  /\ \A useVao \in BOOLEAN : Len(OpsOf(Calls(useVao), {"Logger.error"})) = 1

(***************************************************************************)
(* C6: after draw(), on a context that was clean before it, no vertex      *)
(* array is bound, ARRAY_BUFFER is null, and the default vertex array has  *)
(* no ELEMENT_ARRAY_BUFFER and no enabled attribute location.              *)
(***************************************************************************)
C6_GlobalBindingsRestored ==
  Drawn =>
    \A useVao \in BOOLEAN :
      LET gl == glPrimitive[useVao].gl
      IN  /\ gl.VERTEX_ARRAY_BINDING = null
          /\ gl.ARRAY_BUFFER = null
          /\ gl.vertexArrays[null].ELEMENT_ARRAY_BUFFER = null
          /\ \A l \in Locations : ~gl.vertexArrays[null].attribs[l].enabled

\* a draw that registered a vertex array with an index buffer and enabled
\* attributes, and that bound and enabled them on the default vertex array
\* of the other context
C6_Witness ==
  /\ Drawn
  /\ primitive.indexBufferBinding # null
  /\ OpsOf(Calls(TRUE), {"createVertexArray"}) # <<>>
  /\ \E h \in DOMAIN glPrimitive[TRUE].gl.vertexArrays :
       /\ glPrimitive[TRUE].gl.vertexArrays[h].ELEMENT_ARRAY_BUFFER # null
       /\ \E l \in Locations : glPrimitive[TRUE].gl.vertexArrays[h].attribs[l].enabled
  /\ Len(OpsOf(Calls(FALSE), {"disableVertexAttribArray"})) >= 2
  /\ Len(DrawCommands(Calls(FALSE))) = 1

(***************************************************************************)
(* C7: at every vertexAttribPointer call of bindBufferAndAttrib the buffer *)
(* bound to ARRAY_BUFFER is the native buffer of the binding of the        *)
(* attribute's element, whether or not the bindBuffer call was skipped;    *)
(* and afterwards attribLocArray holds the enabled locations, each once,   *)
(* in the order they were enabled.                                         *)
(***************************************************************************)
BufferOf(name) ==
  primitive.vertexBufferBindings[primitive._vertexElementMap[name].bindingIndex].buffer

ArrayBufferBinds(calls) ==
  SelectSeq(calls, LAMBDA c : c.op = "bindBuffer" /\ c.args[1] = "ARRAY_BUFFER"
                                /\ c.args[2] # null)

C7_SkippedRebindKeepsRightBuffer ==
  \A useVao \in BOOLEAN :
    BoundAttribs(useVao) =>
      LET self == glPrimitive[useVao]
          pointers == OpsOf(self.calls, {"vertexAttribPointer"})
          enables == OpsOf(self.calls, {"enableVertexAttribArray"})
          present == SelectSeq(ActiveAttributes, HasElement)
      IN  /\ Len(pointers) = Len(present)
          /\ \A i \in 1..Len(pointers) :
               /\ pointers[i].args[1] = present[i].loc
               /\ pointers[i].ARRAY_BUFFER = BufferOf(present[i].name)
          /\ self.attribLocArray = [i \in 1..Len(enables) |-> enables[i].args[1]]
          /\ \A i, j \in 1..Len(self.attribLocArray) :
               self.attribLocArray[i] = self.attribLocArray[j] => i = j

\* three attributes bound with two bindBuffer calls: one re-bind skipped and
\* one made
C7_Witness ==
  /\ Drawn
  /\ \A useVao \in BOOLEAN :
       /\ BoundAttribs(useVao)
       /\ Len(OpsOf(Calls(useVao), {"vertexAttribPointer"})) = 3
       /\ Len(ArrayBufferBinds(Calls(useVao))) = 2

(***************************************************************************)
(* C8: over draw() calls alone, the two modes issue the same draw command  *)
(* with the same arguments, and at the command the enabled attribute       *)
(* locations, their pointers and divisors are the same in both, as is the  *)
(* ELEMENT_ARRAY_BUFFER for an indexed draw.                               *)
(***************************************************************************)
C8_ModesEquivalent ==
  Drawn /\ glPrimitive[TRUE].gl.deleted = {} =>
    LET withVao == DrawCommands(Calls(TRUE))
        without == DrawCommands(Calls(FALSE))
    IN  /\ Len(withVao) = Len(without)
        /\ \A i \in 1..Len(withVao) :
             /\ withVao[i].op = without[i].op
             /\ withVao[i].args = without[i].args
             /\ withVao[i].vertexState.attribs = without[i].vertexState.attribs
             /\ withVao[i].op \in {"drawElements", "drawElementsInstanced"} =>
                  withVao[i].vertexState.ELEMENT_ARRAY_BUFFER =
                    without[i].vertexState.ELEMENT_ARRAY_BUFFER

\* an indexed draw from a cached vertex array, after both programs were
\* registered, with a per-instance attribute enabled
C8_Witness ==
  /\ Drawn
  /\ glPrimitive[TRUE].gl.deleted = {}
  /\ Len(glPrimitive[TRUE].vao) = 2
  /\ OpsOf(Calls(TRUE), {"createVertexArray"}) = <<>>
  /\ primitive.indexBufferBinding # null
  /\ Len(DrawCommands(Calls(TRUE))) = 1
  /\ \E l \in Locations :
       /\ DrawCommands(Calls(TRUE))[1].vertexState.attribs[l].enabled
       /\ DrawCommands(Calls(TRUE))[1].vertexState.attribs[l].divisor = 1
  /\ \E l \in Locations :
       /\ DrawCommands(Calls(TRUE))[1].vertexState.attribs[l].enabled
       /\ DrawCommands(Calls(TRUE))[1].vertexState.attribs[l].divisor = 0

====
